---- MODULE Spec2Model ----
(***************************************************************************)
(* A model of the orchestration core of ape-core:                          *)
(*   - LangGraphAgent.run, the bounded routing loop over Router, Agent and *)
(*     Output nodes (src/src/agents/langgraph_agent.py);                   *)
(*   - AgentOrchestrator.run_agent / run_agent_stream and the module-wide  *)
(*     agent_lock (src/src/agents/orchestrator.py);                        *)
(*   - LLMService.change_model and LLMService.generate with provider       *)
(*     fallback (src/src/core/llm_service.py, src/config.py).              *)
(* Python strings are TLA+ strings; the Korean message texts of the source *)
(* are rendered by short ASCII texts with the same structure (a fixed      *)
(* prefix followed by the interpolated value).                            *)
(***************************************************************************)
EXTENDS Integers, Sequences, FiniteSets, TLC

VARIABLES
    \* ---- LangGraphAgent.run ----
    state,            \* the GraphState dict of the run
    step,             \* the local step counter of run
    max_steps,        \* metadata.get("max_steps", 10), when it is an integer
    max_steps_is_int, \* FALSE: the caller passed a value that "<" cannot compare with an int
    g_pc,             \* position of the run: loop, after_loop, output, format, except, done
    exc,              \* the exception travelling to run's outer except clause
    response,         \* what run returned
    node_trace,       \* history: the node executions of the run, in order
    \* ---- configuration and environment (src/config.py) ----
    env,              \* INTERNAL_LLM_API_KEY, OPENROUTER_API_KEY and the answer of /health
    DEFAULT_MODEL,    \* the module global of src/config.py
    \* ---- LLMService ----
    current_model,    \* self.current_model: a model key
    model_config,     \* self.model_config: the entry of MODELS_CONFIG it refers to, by key
    model_id,         \* self.model_id
    available_providers, \* self.available_providers: a list
    \* ---- a thread calling change_model ----
    cm_pc, cm_key, cm_result,
    cm_before,        \* history: the service state when the call began
    cm_hist,          \* history: the key that was current before the last
                      \* successful switch, and how it had become current
    \* ---- a thread calling generate(messages, stream=False) ----
    gen_pc,
    gen,              \* the locals of _generate_sync and _call_provider_llm
    net_ok,           \* for each provider, whether its endpoint answers 200 during this call
    gen_reads,        \* history: the descriptors this call read through self.model_config
    gen_calls,        \* history: the provider requests this call made, in order
    gen_result,       \* what generate returned
    messages,         \* the messages argument of the generate calls
    \* ---- AgentOrchestrator and the threads calling it ----
    agent_lock,       \* the module's threading.Lock: its holder, or NoThread
    agent_cache,      \* self.agent_cache: agent type -> instance (0: no entry)
    constructed,      \* history: how many instances of each type were constructed
    o_pc,             \* per thread: where its run_agent / run_agent_stream call is
    o_call,           \* per thread: the arguments of the call
    o_loc,            \* per thread: the locals of the call
    o_result,         \* per thread: what the call returned
    \* ---- retrieval: VectorStore, VectorDatabase, RAGAgent, RAGAgentChroma ----
    r_backend,        \* the vector backend: unavailable, ok, or faulty
    r_embedding,      \* the embedding model: unavailable (None) or loaded
    r_distance_func,  \* config "distance_func" of the vector store
    r_docs,           \* the distances of the indexed documents to the query,
                      \* in the order the backend returns them (nearest first)
    r_call,           \* the last retrieval operation and its arguments
    r_result          \* what it returned, or that it raised

gvars == <<state, step, max_steps, max_steps_is_int, g_pc, exc, response, node_trace>>

cfgvars == <<env, DEFAULT_MODEL>>

svcvars == <<current_model, model_config, model_id, available_providers>>

cmvars == <<cm_pc, cm_key, cm_result, cm_before, cm_hist>>

genvars == <<gen_pc, gen, net_ok, gen_reads, gen_calls, gen_result, messages>>

lvars == <<cfgvars, svcvars, cmvars, genvars>>

ovars == <<agent_lock, agent_cache, constructed, o_pc, o_call, o_loc, o_result>>

rvars == <<r_backend, r_embedding, r_distance_func, r_docs, r_call, r_result>>

vars == <<gvars, lvars, ovars, rvars>>

\* ------------------------------------------------------------------------
\* Values
\* ------------------------------------------------------------------------

\* Python's None.
None == "None"

\* A key that a dict does not hold.
Missing == "<missing>"

\* Python truthiness of an Optional[str].
Truthy(x) == x # None /\ x # ""

\* dict.get(key, default) on a record field that may be Missing.
Get(v, default) == IF v = Missing THEN default ELSE v

\* Largest max_steps a caller passes explicitly.
MaxSteps == 4

\* metadata.get("max_steps", 10): the default budget.
DefaultMaxSteps == 10

\* The agents the LangGraphAgent was constructed with (agent_instances.keys()).
AgentTypes == {"docs", "tickets"}

\* The query of the run.
Query == "q"

\* ------------------------------------------------------------------------
\* Texts an LLM answers to the Router.  A text is a core (what is left after
\* trimming and lower-casing) written in lower or upper case, with or
\* without surrounding white space.
\* ------------------------------------------------------------------------
Cores == {"docs", "tickets", "none", "jira", "docs."}

RawAnswers == [lead : BOOLEAN, trail : BOOLEAN, upper : BOOLEAN, core : Cores]

\* The text of a Python string literal: no white space around it, lower case.
Lit(s) == [lead |-> FALSE, trail |-> FALSE, upper |-> FALSE, core |-> s]

\* str.strip()
Strip(t) == [t EXCEPT !.lead = FALSE, !.trail = FALSE]

\* str.lower()
Lower(t) == [t EXCEPT !.upper = FALSE]

\* What llm.generate gives the Router node: a text, the failure dict
\* {"error": msg}, a value that is neither (no .strip), or an exception.
AllFailedMsg == "all LLM calls failed"

RouterOutcomes ==
    [kind : {"text"}, text : RawAnswers]
    \cup {[kind |-> "error_dict", text |-> Lit("none")],
          [kind |-> "not_a_string", text |-> Lit("none")],
          [kind |-> "raises", text |-> Lit("none")]}

\* What agent.run gives the Agent node: a result dict, a value without .get,
\* or an exception.
AgentResults == {[content |-> "evidence", agent_id |-> "agent-1"],
                 [content |-> "", agent_id |-> "agent-1"],
                 [content |-> Missing, agent_id |-> Missing]}

NoResult == [content |-> Missing, agent_id |-> Missing]

AgentOutcomes ==
    [kind : {"result"}, result : AgentResults]
    \cup {[kind |-> "not_a_dict", result |-> NoResult],
          [kind |-> "raises", result |-> NoResult]}

\* What llm_service.generate gives the Output node.
OutputOutcomes ==
    [kind : {"text"}, text : {"", "final answer"}]
    \cup {[kind |-> "error_dict", text |-> ""],
          [kind |-> "raises", text |-> ""]}

\* ------------------------------------------------------------------------
\* GraphState
\* ------------------------------------------------------------------------
EmptyDict == [a \in AgentTypes |-> Missing]

NoOutputs == [a \in AgentTypes |-> Missing]

InitialState ==
    [query |-> Query,
     context |-> EmptyDict,
     current_agent |-> "",
     agent_outputs |-> NoOutputs,
     next_agent |-> "start",
     final_output |-> None,
     error |-> None]

\* ------------------------------------------------------------------------
\* AgentNode.run
\* ------------------------------------------------------------------------
AgentOutcomes_Raises == [kind |-> "raises", result |-> NoResult]

AgentOutcomes_NotADict == [kind |-> "not_a_dict", result |-> NoResult]

AgentNodeError(o) ==
    "agent node error: " \o (IF o.kind = "raises" THEN "agent failed" ELSE "no attribute get")

AgentNodeRunPartial(agent_type, st, o) ==
    IF o.kind = "result"
    THEN LET c == Get(o.result.content, "")
             s1 == [st EXCEPT !.agent_outputs[agent_type] = o.result,
                              !.context[agent_type] = c]
         IN  IF s1.next_agent = None
             THEN [s1 EXCEPT !.final_output = c]
             ELSE s1
    ELSE [st EXCEPT !.error = AgentNodeError(o), !.context[agent_type] = ""]

\* the try works on a deep copy of the state; the except clause returns the
\* state it was given, with error set
AgentNodeRun(agent_type, st, o) ==
    IF o.kind = "result"
    THEN LET c == Get(o.result.content, "")
             s1 == [st EXCEPT !.agent_outputs[agent_type] = o.result,
                              !.context[agent_type] = c]
         IN  IF s1.next_agent = None
             THEN [s1 EXCEPT !.final_output = c]
             ELSE s1
    ELSE [st EXCEPT !.error = AgentNodeError(o)]

\* ------------------------------------------------------------------------
\* RouterNode.run
\* ------------------------------------------------------------------------
RouterDecisionAsAnswered(text) == Lower(Strip(text)).core

RouterDecisionUnchecked(text) ==
    LET next_agent == Lower(Strip(text))
    IN  IF next_agent = Lit("none") THEN None ELSE next_agent.core

\* lines 164-173: the decision taken from the answer text
RouterDecision(text) ==
    LET next_agent == Lower(Strip(text))
        known == next_agent = Lit("none") \/ \E a \in AgentTypes : next_agent = Lit(a)
        chosen == IF known THEN next_agent ELSE Lit("none")
    IN  IF chosen = Lit("none") THEN None ELSE chosen.core

RouterNodeRun(st, o) ==
    CASE o.kind = "error_dict" ->
            [st EXCEPT !.error = "routing error: " \o AllFailedMsg,
                       !.next_agent = None]
      [] o.kind = "text" ->
            [st EXCEPT !.next_agent = RouterDecision(o.text)]
      [] OTHER ->
            [st EXCEPT !.error = "router node error: " \o
                                   (IF o.kind = "raises" THEN "llm failed"
                                                         ELSE "no attribute strip"),
                       !.next_agent = None]

\* ------------------------------------------------------------------------
\* OutputNode.run
\* ------------------------------------------------------------------------
OutputNodeRun(st, o) ==
    IF Truthy(st.error)
    THEN [st EXCEPT !.final_output = "error occurred: " \o st.error]
    ELSE CASE o.kind = "error_dict" ->
                [st EXCEPT !.final_output = "final output generation error: " \o AllFailedMsg]
           [] o.kind = "text" ->
                [st EXCEPT !.final_output = o.text]
           [] OTHER ->
                [st EXCEPT !.final_output = "output node error: llm failed"]

\* ------------------------------------------------------------------------
\* LangGraphAgent.run
\* ------------------------------------------------------------------------
StepBudgetError(n) == "max steps (" \o ToString(n) \o ") exceeded"

NoResponseText == "no response could be generated"

LoopContinuesNoBudget(st, s, n) == Truthy(st.next_agent)

LoopContinuesOffByOne(st, s, n) == Truthy(st.next_agent) /\ s <= n

\* the while condition, for an integer max_steps
LoopContinues(st, s, n) == Truthy(st.next_agent) /\ s < n

\* the step counter after one iteration
NextStep(s) == s + 1

BudgetExceededOffByOne(st, s, n) == s > n /\ Truthy(st.next_agent)

\* the budget test after the loop
BudgetExceeded(st, s, n) == s >= n /\ Truthy(st.next_agent)

FormatResponseNoDefault(st) ==
    [content |-> st.final_output,
     error |-> st.error,
     agent_outputs |-> st.agent_outputs]

\* _format_response
FormatResponse(st) ==
    [content |-> IF Truthy(st.final_output) THEN st.final_output ELSE NoResponseText,
     error |-> st.error,
     agent_outputs |-> st.agent_outputs]

\* the outer except clause with _format_error_response
FormatErrorResponse(e) ==
    [content |-> "error: " \o e,
     error |-> e,
     agent_outputs |-> NoOutputs]

NoResponse == [content |-> None, error |-> None, agent_outputs |-> NoOutputs]

RunNodeNoReroute(st, ro, ao) ==
    IF st.next_agent = "start" \/ st.next_agent = "router"
    THEN RouterNodeRun([st EXCEPT !.current_agent = "router"], ro)
    ELSE IF st.next_agent \in AgentTypes
    THEN AgentNodeRun(st.next_agent, [st EXCEPT !.current_agent = st.next_agent], ao)
    ELSE st

\* the node one iteration of the while loop runs (lines 311-325)
RunNode(st, ro, ao) ==
    IF st.next_agent = "start" \/ st.next_agent = "router"
    THEN RouterNodeRun([st EXCEPT !.current_agent = "router"], ro)
    ELSE IF st.next_agent \in AgentTypes
    THEN [AgentNodeRun(st.next_agent, [st EXCEPT !.current_agent = st.next_agent], ao)
            EXCEPT !.next_agent = "router"]
    ELSE st

TraceEntry(st, ro, ao) ==
    IF st.next_agent \in AgentTypes
    THEN [node |-> st.next_agent, kind |-> ao.kind, answer |-> None]
    ELSE [node |-> "router", kind |-> ro.kind,
          answer |-> IF ro.kind = "text" THEN Lower(Strip(ro.text)).core ELSE None]

AfterIterationNoBreak(st) == "loop"

\* lines 331-334: an error ends the loop
AfterIteration(st) == IF Truthy(st.error) THEN "after_loop" ELSE "loop"

GraphInit ==
    /\ state = InitialState
    /\ step = 0
    /\ max_steps \in ((-1) .. MaxSteps) \cup {DefaultMaxSteps}
    /\ max_steps_is_int \in BOOLEAN
    /\ g_pc = "loop"
    /\ exc = None
    /\ response = NoResponse
    /\ node_trace = <<>>

LoopIteration ==
    /\ g_pc = "loop"
    /\ max_steps_is_int
    /\ LoopContinues(state, step, max_steps)
    /\ \E ro \in RouterOutcomes, ao \in AgentOutcomes :
          /\ state' = RunNode(state, ro, ao)
          /\ node_trace' = Append(node_trace, TraceEntry(state, ro, ao))
    /\ step' = NextStep(step)
    /\ g_pc' = AfterIteration(state')
    /\ UNCHANGED <<rvars, ovars, lvars, max_steps, max_steps_is_int, exc, response>>

LoopExit ==
    /\ g_pc = "loop"
    /\ max_steps_is_int
    /\ ~LoopContinues(state, step, max_steps)
    /\ g_pc' = "after_loop"
    /\ UNCHANGED <<rvars, ovars, lvars, state, step, max_steps, max_steps_is_int, exc, response, node_trace>>

\* "step < max_steps" with a max_steps that is no number raises TypeError
LoopTestRaises ==
    /\ g_pc = "loop"
    /\ ~max_steps_is_int
    /\ Truthy(state.next_agent)
    /\ exc' = "TypeError"
    /\ g_pc' = "except"
    /\ UNCHANGED <<rvars, ovars, lvars, state, step, max_steps, max_steps_is_int, response, node_trace>>

BudgetCheck ==
    /\ g_pc = "after_loop"
    /\ state' = IF BudgetExceeded(state, step, max_steps)
                THEN [state EXCEPT !.error = StepBudgetError(max_steps)]
                ELSE state
    /\ g_pc' = "output"
    /\ UNCHANGED <<rvars, ovars, lvars, step, max_steps, max_steps_is_int, exc, response, node_trace>>

OutputStep ==
    /\ g_pc = "output"
    /\ \E o \in OutputOutcomes :
          state' = IF ~Truthy(state.final_output) THEN OutputNodeRun(state, o) ELSE state
    /\ g_pc' = "format"
    /\ UNCHANGED <<rvars, ovars, lvars, step, max_steps, max_steps_is_int, exc, response, node_trace>>

ReturnResponse ==
    /\ g_pc = "format"
    /\ response' = FormatResponse(state)
    /\ g_pc' = "done"
    /\ UNCHANGED <<rvars, ovars, lvars, state, step, max_steps, max_steps_is_int, exc, node_trace>>

ReturnErrorResponse ==
    /\ g_pc = "except"
    /\ response' = FormatErrorResponse(exc)
    /\ g_pc' = "done"
    /\ UNCHANGED <<rvars, ovars, lvars, state, step, max_steps, max_steps_is_int, exc, node_trace>>

GraphNext ==
    \/ LoopIteration
    \/ LoopExit
    \/ LoopTestRaises
    \/ BudgetCheck
    \/ OutputStep
    \/ ReturnResponse
    \/ ReturnErrorResponse


\* ------------------------------------------------------------------------
\* src/config.py: the model registry and the environment
\* ------------------------------------------------------------------------
\* MODELS_CONFIG, in the order of its keys
ModelOrder == <<"internal-model", "openrouter-llama">>

ModelKeys == {ModelOrder[i] : i \in DOMAIN ModelOrder}

\* a key no registry entry has
UnknownKey == "unknown-model"

Provider(k) == IF k = "internal-model" THEN "internal" ELSE "openrouter"

ModelId(k) == IF k = "internal-model" THEN "internal-model-v1" ELSE "meta/llama-3-70b-instruct"

Providers == {"internal", "openrouter"}

\* values of an API key variable: empty, the mock sentinel, a real key
ApiKeys == {"", "mock_key", "sk-live"}

StartsWith(s, p) == Len(s) >= Len(p) /\ SubSeq(s, 1, Len(p)) = p

Environments ==
    [internal_key : ApiKeys,              \* get_env("INTERNAL_LLM_API_KEY", "")
     openrouter_key : ApiKeys \cup {Missing}, \* OPENROUTER_API_KEY, Missing: not in os.environ
     probe_ok : BOOLEAN]                  \* GET <endpoint>/health answers 200 at startup

\* MODELS_CONFIG[k]["apiKey"]
ApiKey(e, k) == IF k = "internal-model" THEN e.internal_key ELSE Get(e.openrouter_key, "")

\* get_available_models: a list of keys
GetAvailableModels(e) ==
    (IF e.internal_key # "" THEN <<"internal-model">> ELSE <<>>)
    \o (IF e.openrouter_key # Missing THEN <<"openrouter-llama">> ELSE <<>>)

InList(x, l) == \E i \in DOMAIN l : l[i] = x

\* get_default_model
GetDefaultModel(e, dm) ==
    IF e.internal_key # "" /\ dm = "internal-model" THEN "internal-model"
    ELSE IF e.openrouter_key # Missing THEN "openrouter-llama"
    ELSE IF dm \in ModelKeys THEN dm
    ELSE ModelOrder[1]

\* set_default_model: the new value of DEFAULT_MODEL
SetDefaultModelIgnored(dm, k) == dm

SetDefaultModel(dm, k) == IF k \in ModelKeys THEN k ELSE dm

\* ------------------------------------------------------------------------
\* LLMService
\* ------------------------------------------------------------------------
\* _get_available_providers: the providers of the available models, as a set
AvailableProviderSet(e) ==
    {Provider(GetAvailableModels(e)[i]) : i \in DOMAIN GetAvailableModels(e)}

\* list(providers): the set in some order
Orderings(S) == {l \in UNION {[1..n -> S] : n \in {Cardinality(S)}} :
                    \A i, j \in DOMAIN l : i # j => l[i] # l[j]}

Without(l, x) == SelectSeq(l, LAMBDA y : y # x)

AfterProbeKeeps(e, l) == l

\* _check_internal_connection: internal leaves the list when the probe fails
AfterProbe(e, l) ==
    IF InList("internal", l) /\ ~e.probe_ok THEN Without(l, "internal") ELSE l

\* _get_provider_model: the first available model of the provider, or None
GetProviderModel(e, p) ==
    LET l == SelectSeq(GetAvailableModels(e), LAMBDA k : Provider(k) = p)
    IN  IF l = <<>> THEN None ELSE l[1]

\* line 183-185: the dict returned when nothing worked, with its fixed message
AllFailedResult ==
    [kind |-> "error", origin |-> None, model |-> None, error |-> AllFailedMsg,
     content |-> None, chunks |-> <<>>]

NoGenResult ==
    [kind |-> "none", origin |-> None, model |-> None, error |-> None,
     content |-> None, chunks |-> <<>>]

\* ---- the messages and the mock responses ----
Roles == {"user", "assistant"}

Contents == {"hi", "what is APE", Missing}

Messages == [role : Roles, content : Contents]

MaxMessages == 2

MessageLists == UNION {[1..n -> Messages] : n \in 0..MaxMessages}

\* the messages of scenario A
HiMessages == <<[role |-> "user", content |-> "hi"]>>

\* sub in s, for Python strings
Contains(s, sub) ==
    \E i \in 1..(Len(s) - Len(sub) + 1) : SubSeq(s, i, i + Len(sub) - 1) = sub

\* lines 193-197 and 262-266: the walk over reversed(messages) that stops
\* at the first message of role user; i is the index the walk is at
RECURSIVE FirstUserFrom(_, _)
FirstUserFrom(msgs, i) ==
    IF i > Len(msgs) THEN ""
    ELSE IF msgs[i].role = "user" THEN Get(msgs[i].content, "")
    ELSE FirstUserFrom(msgs, i + 1)

RECURSIVE LastUserFrom(_, _)
LastUserFrom(msgs, i) ==
    IF i < 1 THEN ""
    ELSE IF msgs[i].role = "user" THEN Get(msgs[i].content, "")
    ELSE LastUserFrom(msgs, i - 1)

UserMessageFirst(msgs) == FirstUserFrom(msgs, 1)

UserMessage(msgs) == LastUserFrom(msgs, Len(msgs))

ApeText == "APE is a backend server"

\* _generate_mock_response lines 200-211
GenerateMockResponse(msgs) ==
    LET user_message == UserMessage(msgs)
    IN  IF Contains(user_message, "APE") \/ Contains(user_message, "agent")
        THEN ApeText
        ELSE "sorry, no information about '" \o user_message \o "'"

\* _generate_mock_stream lines 269-294: the chunks yielded
GenerateMockStream(msgs) ==
    LET user_message == UserMessage(msgs)
    IN  IF Contains(user_message, "APE") \/ Contains(user_message, "agent")
        THEN <<"APE is ", "a backend server">>
        ELSE <<"sorry, ", "no information about '" \o user_message \o "'">>

MockResult(msgs) ==
    [kind |-> "mock", origin |-> None, model |-> None, error |-> None,
     content |-> GenerateMockResponse(msgs), chunks |-> <<>>]

MockStreamResult(msgs) ==
    [kind |-> "mock_stream", origin |-> None, model |-> None, error |-> None,
     content |-> None, chunks |-> GenerateMockStream(msgs)]

\* line 251-254 of _generate_stream: the message yielded when nothing worked
AllFailedStreamMsg == "all LLM streaming calls failed"

\* a fragment that provider p streamed
Fragment(p) == p \o " fragment"

NoSwitch == [previous |-> None, by_switch |-> FALSE, switched |-> FALSE]

GenLocals0 ==
    [stream |-> FALSE, api_key |-> None, provider |-> None, target |-> None,
     stage |-> None, idx |-> 0, descriptor |-> None, last_error |-> None,
     attempts |-> <<>>]   \* the providers _call_provider_llm was called for

NetOk0 == [p \in Providers |-> FALSE]

LLMInit ==
    /\ env \in Environments
    /\ DEFAULT_MODEL \in ModelKeys \cup {UnknownKey}
    /\ current_model = GetDefaultModel(env, DEFAULT_MODEL)
    /\ model_config = current_model
    /\ model_id = ModelId(model_config)
    /\ available_providers \in {AfterProbe(env, l) : l \in Orderings(AvailableProviderSet(env))}
    /\ cm_pc = "idle"
    /\ cm_key = None
    /\ cm_result = None
    /\ cm_before = <<>>
    /\ cm_hist = NoSwitch
    /\ gen_pc = "idle"
    /\ gen = GenLocals0
    /\ net_ok = NetOk0
    /\ gen_reads = {}
    /\ gen_calls = <<>>
    /\ gen_result = NoGenResult

\* the service when only the graph is looked at
LLMQuiet ==
    /\ env = [internal_key |-> "", openrouter_key |-> Missing, probe_ok |-> FALSE]
    /\ DEFAULT_MODEL = "internal-model"
    /\ messages = HiMessages
    /\ LLMInit

ServiceState == <<current_model, model_config, model_id, DEFAULT_MODEL>>

\* ---- change_model ----
KeyRegistered(e, k) == k \in ModelKeys

\* line 112-116: the key is one of get_available_models()
KeyAvailable(e, k) == InList(k, GetAvailableModels(e))

ChangeModelBegin ==
    /\ cm_pc = "idle"
    /\ \E k \in ModelKeys \cup {UnknownKey} :
          /\ cm_key' = k
          /\ IF KeyAvailable(env, k)
             THEN cm_pc' = "set_current_model" /\ cm_result' = None
             ELSE cm_pc' = "returned" /\ cm_result' = FALSE
    /\ cm_before' = ServiceState
    /\ UNCHANGED <<rvars, ovars, gvars, cfgvars, svcvars, cm_hist, genvars>>

ChangeModelSetCurrent ==
    /\ cm_pc = "set_current_model"
    /\ current_model' = cm_key
    /\ cm_pc' = "set_model_config"
    /\ UNCHANGED <<rvars, ovars, gvars, cfgvars, model_config, model_id, available_providers,
                   cm_key, cm_result, cm_before, cm_hist, genvars>>

ChangeModelSetConfig ==
    /\ cm_pc = "set_model_config"
    /\ model_config' = cm_key
    /\ cm_pc' = "set_model_id"
    /\ UNCHANGED <<rvars, ovars, gvars, cfgvars, current_model, model_id, available_providers,
                   cm_key, cm_result, cm_before, cm_hist, genvars>>

ChangeModelSetId ==
    /\ cm_pc = "set_model_id"
    /\ model_id' = ModelId(model_config)
    /\ cm_pc' = "set_default_model"
    /\ UNCHANGED <<rvars, ovars, gvars, cfgvars, current_model, model_config, available_providers,
                   cm_key, cm_result, cm_before, cm_hist, genvars>>

ChangeModelSetDefault ==
    /\ cm_pc = "set_default_model"
    /\ DEFAULT_MODEL' = SetDefaultModel(DEFAULT_MODEL, cm_key)
    /\ cm_result' = TRUE
    /\ cm_pc' = "returned"
    /\ UNCHANGED <<rvars, ovars, gvars, env, svcvars, cm_key, cm_before, cm_hist, genvars>>

ChangeModelReturn ==
    /\ cm_pc = "returned"
    /\ cm_pc' = "idle"
    /\ cm_key' = None
    /\ cm_result' = None
    /\ cm_before' = <<>>
    /\ cm_hist' = IF cm_result = TRUE
                  THEN [previous |-> cm_before[1], by_switch |-> cm_hist.switched,
                        switched |-> TRUE]
                  ELSE cm_hist
    /\ UNCHANGED <<rvars, ovars, gvars, cfgvars, svcvars, genvars>>

ChangeModelNext ==
    \/ ChangeModelBegin
    \/ ChangeModelSetCurrent
    \/ ChangeModelSetConfig
    \/ ChangeModelSetId
    \/ ChangeModelSetDefault
    \/ ChangeModelReturn

\* ---- generate(messages, stream): _generate_sync, and _generate_stream as
\* its consumer iterates it ----
\* line 151-154, 216-220: the credential test on self.model_config
GenerateBegin ==
    /\ gen_pc = "idle"
    /\ net_ok' \in [Providers -> BOOLEAN]
    /\ gen_reads' = {model_config}
    /\ gen_calls' = <<>>
    /\ \E stream \in BOOLEAN :
          LET api_key == ApiKey(env, model_config)
          IN  /\ gen' = [GenLocals0 EXCEPT !.stream = stream, !.api_key = api_key]
              /\ IF StartsWith(api_key, "mock_")
                 THEN /\ gen_pc' = "returned"
                      /\ gen_result' = IF stream THEN MockStreamResult(messages)
                                                 ELSE MockResult(messages)
                 ELSE /\ gen_pc' = "read_provider"
                      /\ gen_result' = NoGenResult
    /\ UNCHANGED <<rvars, ovars, gvars, cfgvars, svcvars, cmvars, messages>>

PrimaryAttemptedAlways(p, avail) == TRUE

\* the branch taken for the active model's provider (lines 159, 166)
PrimaryAttempted(p, avail) ==
    \/ p = "internal" /\ InList("internal", avail)
    \/ p = "openrouter" /\ InList("openrouter", avail)

\* line 157-171: the provider of self.model_config and the primary attempt
GenerateReadProvider ==
    /\ gen_pc = "read_provider"
    /\ LET p == Provider(model_config)
       IN  IF PrimaryAttempted(p, available_providers)
           THEN /\ gen' = [gen EXCEPT !.provider = p, !.target = p, !.stage = "primary",
                                       !.attempts = <<p>>]
                /\ gen_pc' = "resolve"
           ELSE /\ gen' = [gen EXCEPT !.provider = p, !.stage = "fallback", !.idx = 1]
                /\ gen_pc' = "fallback"
    /\ gen_reads' = gen_reads \cup {model_config}
    /\ UNCHANGED <<rvars, ovars, gvars, cfgvars, svcvars, cmvars, messages, net_ok, gen_calls, gen_result>>

FallbackListAllProviders(avail) == <<"internal", "openrouter">>

\* the providers the fallback loop walks (line 174)
FallbackList(avail) == avail

\* line 174-185: one turn of the fallback loop, or its end
GenerateFallback ==
    /\ gen_pc = "fallback"
    /\ LET l == FallbackList(available_providers)
       IN  IF gen.idx > Len(l)
           THEN /\ gen_result' = IF gen.stream
                                  THEN [gen_result EXCEPT !.kind = "stream_error",
                                           !.chunks = Append(@, AllFailedStreamMsg)]
                                  ELSE AllFailedResult
                /\ gen_pc' = "returned"
                /\ gen' = gen
           ELSE IF l[gen.idx] # gen.provider
           THEN /\ gen' = [gen EXCEPT !.target = l[gen.idx],
                                       !.attempts = Append(@, l[gen.idx])]
                /\ gen_pc' = "resolve"
                /\ gen_result' = gen_result
           ELSE /\ gen' = [gen EXCEPT !.idx = gen.idx + 1]
                /\ gen_pc' = "fallback"
                /\ gen_result' = gen_result
    /\ UNCHANGED <<rvars, ovars, gvars, cfgvars, svcvars, cmvars, messages, net_ok, gen_reads, gen_calls>>

\* the exceptions an attempt ends with: line 312, line 455, and the failed
\* request of _call_internal_llm / _call_openrouter
NoProviderModelError(p) == "no available model of provider " \o p

NoApiKeyError == "OpenRouter API key is not set"

RequestError(p) == p \o " request failed"

\* where a failed attempt continues: the primary's except clause falls
\* through to the loop, the loop's except clause goes to the next provider;
\* the exception e is logged there
AfterFailure(g, e) ==
    IF g.stage = "primary"
    THEN [g EXCEPT !.stage = "fallback", !.idx = 1, !.target = None, !.descriptor = None,
                   !.last_error = e]
    ELSE [g EXCEPT !.idx = g.idx + 1, !.target = None, !.descriptor = None,
                   !.last_error = e]

\* _call_provider_llm line 307-316: the provider of self.model_config against
\* the provider asked for
GenerateResolve ==
    /\ gen_pc = "resolve"
    /\ gen_reads' = gen_reads \cup {model_config}
    /\ IF Provider(model_config) # gen.target
       THEN IF GetProviderModel(env, gen.target) = None
            THEN gen' = AfterFailure(gen, NoProviderModelError(gen.target)) /\ gen_pc' = "fallback"
            ELSE /\ gen' = [gen EXCEPT !.descriptor = GetProviderModel(env, gen.target)]
                 /\ gen_pc' = "request"
       ELSE gen' = gen /\ gen_pc' = "bind"
    /\ UNCHANGED <<rvars, ovars, gvars, cfgvars, svcvars, cmvars, messages, net_ok, gen_calls, gen_result>>

\* _call_provider_llm line 319: model_config = self.model_config
GenerateBind ==
    /\ gen_pc = "bind"
    /\ gen' = [gen EXCEPT !.descriptor = model_config]
    /\ gen_reads' = gen_reads \cup {model_config}
    /\ gen_pc' = "request"
    /\ UNCHANGED <<rvars, ovars, gvars, cfgvars, svcvars, cmvars, messages, net_ok, gen_calls, gen_result>>

\* _call_openrouter line 450-455: the key sent, the environment's when the
\* descriptor has none
EffectiveKey(e, target, d) ==
    IF target = "openrouter" /\ ApiKey(e, d) = "" /\ e.openrouter_key # Missing
    THEN e.openrouter_key
    ELSE ApiKey(e, d)

\* _call_openrouter raises before any request when it has no key
RequestSent(e, target, d) == ~(target = "openrouter" /\ EffectiveKey(e, target, d) = "")

\* _call_internal_llm / _call_openrouter: the request and its answer
GenerateRequest ==
    /\ gen_pc = "request"
    /\ LET d == gen.descriptor
           sent == RequestSent(env, gen.target, d)
       IN  /\ gen_calls' = IF sent
                           THEN Append(gen_calls, [provider |-> gen.target, model |-> d,
                                                   key |-> EffectiveKey(env, gen.target, d)])
                           ELSE gen_calls
           /\ \E answered \in IF ~sent THEN {FALSE}
                              ELSE IF Provider(d) = gen.target THEN {net_ok[gen.target]}
                              ELSE BOOLEAN :
                 IF answered
                 THEN /\ gen_result' =
                         IF gen.stream
                         THEN [gen_result EXCEPT !.kind = "stream", !.origin = gen.target,
                                  !.model = d, !.chunks = Append(@, Fragment(gen.target))]
                         ELSE [NoGenResult EXCEPT !.kind = "text", !.origin = gen.target,
                                  !.model = d, !.content = "answer of " \o d]
                      /\ gen_pc' = "returned"
                      /\ gen' = gen
                 ELSE \* a stream can break after fragments were yielded
                      /\ \E yielded \in IF gen.stream /\ sent THEN BOOLEAN ELSE {FALSE} :
                            gen_result' =
                              IF yielded
                              THEN [gen_result EXCEPT !.chunks = Append(@, Fragment(gen.target))]
                              ELSE gen_result
                      /\ gen_pc' = "fallback"
                      /\ gen' = AfterFailure(gen, IF sent THEN RequestError(gen.target)
                                                          ELSE NoApiKeyError)
    /\ UNCHANGED <<rvars, ovars, gvars, cfgvars, svcvars, cmvars, messages, net_ok, gen_reads>>

GenerateReturn ==
    /\ gen_pc = "returned"
    /\ gen_pc' = "idle"
    /\ gen' = GenLocals0
    /\ net_ok' = NetOk0
    /\ gen_reads' = {}
    /\ gen_calls' = <<>>
    /\ gen_result' = NoGenResult
    /\ UNCHANGED <<rvars, ovars, gvars, cfgvars, svcvars, cmvars, messages>>

GenerateNext ==
    \/ GenerateBegin
    \/ GenerateReadProvider
    \/ GenerateFallback
    \/ GenerateResolve
    \/ GenerateBind
    \/ GenerateRequest
    \/ GenerateReturn

\* ------------------------------------------------------------------------
\* AgentOrchestrator (src/src/agents/orchestrator.py)
\* ------------------------------------------------------------------------
\* the threads that call the orchestrator
Threads == {"t1", "t2"}

NoThread == "nobody"

\* self.agent_types, in the order of its keys; two of its six entries, which
\* all are handled alike
OrchestratorAgentTypes == <<"jira", "rag">>

RegisteredAgents == {OrchestratorAgentTypes[i] : i \in DOMAIN OrchestratorAgentTypes}

\* self.complex_agent_types
ComplexAgentTypes == {"langgraph"}

\* an agent type nobody registered
UnknownAgent == "unknown"

CachedTypes == RegisteredAgents \cup ComplexAgentTypes

\* the keys self.agent_cache is looked at for
CacheKeys == CachedTypes \cup {UnknownAgent}

InAgentTypesOrNot(a) == TRUE

\* agent_type in self.agent_types (line 99)
InAgentTypes(a) == a \in RegisteredAgents

CallableTypes == RegisteredAgents \cup ComplexAgentTypes \cup {"graph", UnknownAgent}

NoCall == [agent_type |-> None, stream |-> FALSE]

NoLocals == [agent |-> 0, selected |-> None, via_graph |-> FALSE, idx |-> 0]

NoOrchResult == [kind |-> "none", content |-> None, agent |-> None, instance |-> 0]

\* the dict an agent's run returns
AgentRunResult(a, n) == [kind |-> "result", content |-> "answer", agent |-> a, instance |-> n]

\* the except clause of _run_single_agent (lines 121-132)
SingleAgentErrorResponse(a) ==
    [kind |-> "error_response", content |-> "agent run error", agent |-> a, instance |-> 0]

\* what llm_service.generate gives _run_graph_agent: a text, characterized by
\* the agent names it contains, or the failure dict
GraphRoutingOutcomes ==
    [kind : {"text"}, mentions : SUBSET RegisteredAgents]
    \cup {[kind |-> "error_dict", mentions |-> {}]}

\* lines 223-227: the first registered agent whose name the text contains
SelectedAgent(mentions) ==
    LET hits == {i \in DOMAIN OrchestratorAgentTypes : OrchestratorAgentTypes[i] \in mentions}
    IN  IF hits = {} THEN "none"
        ELSE OrchestratorAgentTypes[CHOOSE i \in hits : \A j \in hits : i <= j]

OrchInit ==
    /\ agent_lock = NoThread
    /\ agent_cache = [a \in CacheKeys |-> 0]
    /\ constructed = [a \in CacheKeys |-> 0]
    /\ o_pc = [t \in Threads |-> "idle"]
    /\ o_call = [t \in Threads |-> NoCall]
    /\ o_loc = [t \in Threads |-> NoLocals]
    /\ o_result = [t \in Threads |-> NoOrchResult]

OrchQuiet == OrchInit

\* the branch run_agent takes (lines 83-94)
Dispatch(agent_type) ==
    IF agent_type = "graph" THEN "graph_generating"
    ELSE IF agent_type = "langgraph" THEN "lg_check"
    ELSE "get_agent"

\* run_agent_stream lines 261-265: complex agents run through run_agent
StreamDispatch(agent_type) ==
    IF agent_type \in {"graph", "langgraph"} \/ agent_type \in ComplexAgentTypes
    THEN Dispatch(agent_type)
    ELSE "stream_lock"

\* a thread calls run_agent or starts consuming run_agent_stream
RunAgentBegin(t) ==
    /\ o_pc[t] = "idle"
    /\ \E a \in CallableTypes, st \in BOOLEAN :
          /\ o_call' = [o_call EXCEPT ![t] = [agent_type |-> a, stream |-> st]]
          /\ o_pc' = [o_pc EXCEPT ![t] = IF st THEN StreamDispatch(a) ELSE Dispatch(a)]
    /\ o_loc' = [o_loc EXCEPT ![t] = NoLocals]
    /\ o_result' = [o_result EXCEPT ![t] = NoOrchResult]
    /\ UNCHANGED <<rvars, gvars, lvars, agent_lock, agent_cache, constructed>>

\* the agent type _run_single_agent works on
SingleType(t) == IF o_loc[t].via_graph THEN o_loc[t].selected ELSE o_call[t].agent_type

\* where a call goes when _run_single_agent has returned r
AfterSingle(t, r) ==
    /\ o_result' = [o_result EXCEPT ![t] = r]
    /\ o_pc' = [o_pc EXCEPT ![t] = IF o_loc[t].via_graph THEN "graph_finish" ELSE "returned"]

\* _get_agent lines 98-105: the cache test, and the constructor on a miss
GetAgent(t) ==
    /\ o_pc[t] = "get_agent"
    /\ LET a == SingleType(t)
       IN  IF agent_cache[a] # 0
           THEN /\ o_pc' = [o_pc EXCEPT ![t] = "fetch_agent"]
                /\ UNCHANGED <<constructed, o_loc, o_result>>
           ELSE IF InAgentTypes(a)
           THEN \E ctor_ok \in BOOLEAN :
                   IF ctor_ok
                   THEN /\ constructed' = [constructed EXCEPT ![a] = @ + 1]
                        /\ o_loc' = [o_loc EXCEPT ![t].agent = constructed[a] + 1]
                        /\ o_pc' = [o_pc EXCEPT ![t] = "store_agent"]
                        /\ UNCHANGED o_result
                   ELSE /\ AfterSingle(t, SingleAgentErrorResponse(a))
                        /\ UNCHANGED <<constructed, o_loc>>
           ELSE /\ AfterSingle(t, SingleAgentErrorResponse(a))
                /\ UNCHANGED <<constructed, o_loc>>
    /\ UNCHANGED <<rvars, gvars, lvars, agent_lock, agent_cache, o_call>>

\* _get_agent line 100: the new instance goes into the cache
StoreAgent(t) ==
    /\ o_pc[t] = "store_agent"
    /\ agent_cache' = [agent_cache EXCEPT ![SingleType(t)] = o_loc[t].agent]
    /\ o_pc' = [o_pc EXCEPT ![t] = "fetch_agent"]
    /\ UNCHANGED <<rvars, gvars, lvars, agent_lock, constructed, o_call, o_loc, o_result>>

\* _get_agent line 107: the instance the cache holds now
FetchAgent(t) ==
    /\ o_pc[t] = "fetch_agent"
    /\ o_loc' = [o_loc EXCEPT ![t].agent = agent_cache[SingleType(t)]]
    /\ o_pc' = [o_pc EXCEPT ![t] = "lock_wait"]
    /\ UNCHANGED <<rvars, gvars, lvars, agent_lock, agent_cache, constructed, o_call, o_result>>

\* with agent_lock: (lines 116, 190)
AcquireLock(t) ==
    /\ o_pc[t] = "lock_wait"
    /\ agent_lock = NoThread
    /\ agent_lock' = t
    /\ o_pc' = [o_pc EXCEPT ![t] = "agent_running"]
    /\ UNCHANGED <<rvars, gvars, lvars, agent_cache, constructed, o_call, o_loc, o_result>>

\* agent.run(query, metadata) ends, the with block releases the lock, and the
\* method returns the result or, for a single agent, the error response
AgentRunEnds(t) ==
    /\ o_pc[t] = "agent_running"
    /\ agent_lock' = NoThread
    /\ IF o_call[t].agent_type = "langgraph"
       THEN /\ o_result' = [o_result EXCEPT ![t] = AgentRunResult("langgraph", o_loc[t].agent)]
            /\ o_pc' = [o_pc EXCEPT ![t] = "returned"]
       ELSE \E run_ok \in BOOLEAN :
               AfterSingle(t, IF run_ok THEN AgentRunResult(SingleType(t), o_loc[t].agent)
                                        ELSE SingleAgentErrorResponse(SingleType(t)))
    /\ UNCHANGED <<rvars, gvars, lvars, agent_cache, constructed, o_call, o_loc>>

\* _run_graph_agent lines 220-234: llm_service.generate answers and the
\* answer is searched for agent names
GraphRoutingEnds(t) ==
    /\ o_pc[t] = "graph_generating"
    /\ \E o \in GraphRoutingOutcomes :
          IF o.kind = "error_dict"
          THEN \* agent_choice.lower() on a dict: AttributeError, caught nowhere
               /\ o_pc' = [o_pc EXCEPT ![t] = "raised"]
               /\ UNCHANGED <<o_loc, o_result>>
          ELSE IF SelectedAgent(o.mentions) # "none"
          THEN /\ o_loc' = [o_loc EXCEPT ![t].selected = SelectedAgent(o.mentions),
                                         ![t].via_graph = TRUE]
               /\ o_pc' = [o_pc EXCEPT ![t] = "get_agent"]
               /\ UNCHANGED o_result
          ELSE /\ o_loc' = [o_loc EXCEPT ![t].selected = "none"]
               /\ o_result' = [o_result EXCEPT ![t] =
                      [kind |-> "graph_response", content |-> "no suitable agent",
                       agent |-> "none", instance |-> 0]]
               /\ o_pc' = [o_pc EXCEPT ![t] = "returned"]
    /\ UNCHANGED <<rvars, gvars, lvars, agent_lock, agent_cache, constructed, o_call>>

\* _run_graph_agent lines 231-243: the graph response around the agent's
GraphFinish(t) ==
    /\ o_pc[t] = "graph_finish"
    /\ o_result' = [o_result EXCEPT ![t] =
           [kind |-> "graph_response", content |-> o_result[t].content,
            agent |-> o_loc[t].selected, instance |-> o_result[t].instance]]
    /\ o_pc' = [o_pc EXCEPT ![t] = "returned"]
    /\ UNCHANGED <<rvars, gvars, lvars, agent_lock, agent_cache, constructed, o_call, o_loc>>

\* _run_langgraph_agent line 183
LangGraphCheck(t) ==
    /\ o_pc[t] = "lg_check"
    /\ IF agent_cache["langgraph"] = 0
       THEN o_pc' = [o_pc EXCEPT ![t] = "lg_create"] /\ o_loc' = [o_loc EXCEPT ![t].idx = 1]
       ELSE o_pc' = [o_pc EXCEPT ![t] = "lg_fetch"] /\ o_loc' = o_loc
    /\ UNCHANGED <<rvars, gvars, lvars, agent_lock, agent_cache, constructed, o_call, o_result>>

\* _create_langgraph_agent lines 169-178: one turn of the loop over
\* self.agent_types (a missing agent is constructed and cached, a failing
\* constructor is logged), and after the last turn the LangGraphAgent
LangGraphCreate(t) ==
    /\ o_pc[t] = "lg_create"
    /\ IF o_loc[t].idx <= Len(OrchestratorAgentTypes)
       THEN LET a == OrchestratorAgentTypes[o_loc[t].idx]
            IN  /\ \E ctor_ok \in BOOLEAN :
                      IF agent_cache[a] = 0 /\ ctor_ok
                      THEN /\ constructed' = [constructed EXCEPT ![a] = @ + 1]
                           /\ agent_cache' = [agent_cache EXCEPT ![a] = constructed[a] + 1]
                      ELSE UNCHANGED <<constructed, agent_cache>>
                /\ o_loc' = [o_loc EXCEPT ![t].idx = @ + 1]
                /\ o_pc' = o_pc
       ELSE /\ constructed' = [constructed EXCEPT !["langgraph"] = @ + 1]
            /\ o_loc' = [o_loc EXCEPT ![t].agent = constructed["langgraph"] + 1, ![t].idx = 0]
            /\ o_pc' = [o_pc EXCEPT ![t] = "lg_store"]
            /\ UNCHANGED agent_cache
    /\ UNCHANGED <<rvars, gvars, lvars, agent_lock, o_call, o_result>>

\* _run_langgraph_agent line 184
LangGraphStore(t) ==
    /\ o_pc[t] = "lg_store"
    /\ agent_cache' = [agent_cache EXCEPT !["langgraph"] = o_loc[t].agent]
    /\ o_pc' = [o_pc EXCEPT ![t] = "lg_fetch"]
    /\ UNCHANGED <<rvars, gvars, lvars, agent_lock, constructed, o_call, o_loc, o_result>>

\* _run_langgraph_agent line 187
LangGraphFetch(t) ==
    /\ o_pc[t] = "lg_fetch"
    /\ o_loc' = [o_loc EXCEPT ![t].agent = agent_cache["langgraph"]]
    /\ o_pc' = [o_pc EXCEPT ![t] = "lock_wait"]
    /\ UNCHANGED <<rvars, gvars, lvars, agent_lock, agent_cache, constructed, o_call, o_result>>

\* run_agent_stream line 281
StreamAcquireLock(t) ==
    /\ o_pc[t] = "stream_lock"
    /\ agent_lock = NoThread
    /\ agent_lock' = t
    /\ o_pc' = [o_pc EXCEPT ![t] = "stream_generate"]
    /\ UNCHANGED <<rvars, gvars, lvars, agent_cache, constructed, o_call, o_loc, o_result>>

\* run_agent_stream line 282: generate(messages, stream=True) makes the
\* generator object, which runs nothing until it is iterated; the with block
\* ends
StreamGenerate(t) ==
    /\ o_pc[t] = "stream_generate"
    /\ agent_lock' = NoThread
    /\ o_pc' = [o_pc EXCEPT ![t] = "stream_process"]
    /\ UNCHANGED <<rvars, gvars, lvars, agent_cache, constructed, o_call, o_loc, o_result>>

\* run_agent_stream line 285: LLMService has no attribute process_stream, the
\* lookup raises AttributeError
StreamProcess(t) ==
    /\ o_pc[t] = "stream_process"
    /\ o_pc' = [o_pc EXCEPT ![t] = "raised"]
    /\ UNCHANGED <<rvars, gvars, lvars, agent_lock, agent_cache, constructed, o_call, o_loc, o_result>>

\* the caller has the response, or the exception
CallEnds(t) ==
    /\ o_pc[t] \in {"returned", "raised"}
    /\ o_pc' = [o_pc EXCEPT ![t] = "idle"]
    /\ o_call' = [o_call EXCEPT ![t] = NoCall]
    /\ o_loc' = [o_loc EXCEPT ![t] = NoLocals]
    /\ o_result' = [o_result EXCEPT ![t] = NoOrchResult]
    /\ UNCHANGED <<rvars, gvars, lvars, agent_lock, agent_cache, constructed>>

OrchNext ==
    \E t \in Threads :
        \/ RunAgentBegin(t)
        \/ GetAgent(t)
        \/ StoreAgent(t)
        \/ FetchAgent(t)
        \/ AcquireLock(t)
        \/ AgentRunEnds(t)
        \/ GraphRoutingEnds(t)
        \/ GraphFinish(t)
        \/ LangGraphCheck(t)
        \/ LangGraphCreate(t)
        \/ LangGraphStore(t)
        \/ LangGraphFetch(t)
        \/ StreamAcquireLock(t)
        \/ StreamGenerate(t)
        \/ StreamProcess(t)
        \/ CallEnds(t)

\* ------------------------------------------------------------------------
\* Retrieval (src/src/agents/rag_agent.py, src/src/agents/rag_agent_chroma.py,
\* src/src/utils/db_utils.py)
\* ------------------------------------------------------------------------
\* Scores are fractions num/den with den > 0, compared exactly.
Frac(n, d) == [num |-> n, den |-> d]

Greater(a, b) == a.num * b.den > b.num * a.den

GreaterEq(a, b) == a.num * b.den >= b.num * a.den

\* distances are counted in hundredths
Unit == 100

Distances == {0, 50, 100, 300}

MaxDocs == 3

MaxK == 5

Min(a, b) == IF a < b THEN a ELSE b

Max(a, b) == IF a > b THEN a ELSE b

\* what the index can hold for one query: the backend returns the nearest
\* documents first
IndexContents ==
    {l \in UNION {[1..n -> Distances] : n \in 0..MaxDocs} :
        \A i \in DOMAIN l : i > 1 => l[i - 1] <= l[i]}

\* the num_results argument: an integer, None, or a text int() rejects
KInputs ==
    {[kind |-> "int", value |-> v] : v \in -1..MaxK}
    \cup {[kind |-> "none", value |-> 0], [kind |-> "text", value |-> 0]}

\* default_top_k
DefaultTopK == 3

\* try: int(num_results) except: 3
ToInt(k) == IF k.kind = "int" THEN k.value ELSE DefaultTopK

\* list[:n] of Python
Slice(l, n) ==
    IF n >= 0 THEN SubSeq(l, 1, Min(n, Len(l)))
    ELSE SubSeq(l, 1, Max(Len(l) + n, 0))

Raised == [raised |-> TRUE, list |-> <<>>, count |-> 0]

Returned(l) == [raised |-> FALSE, list |-> l, count |-> 0]

ReturnedCount(n) == [raised |-> FALSE, list |-> <<>>, count |-> n]

\* collection.query(n_results = n): the n nearest documents; the backend
\* rejects n <= 0, and a faulty backend raises
CollectionQuery(docs, n, fault) ==
    IF fault \/ n <= 0 THEN Raised ELSE Returned(SubSeq(docs, 1, Min(n, Len(docs))))

\* VectorStore.query lines 277-282: the relevance of a distance
StoreRelevanceAsSimilarity(df, distance) == Frac(Unit, Unit + distance)

StoreRelevance(df, distance) ==
    IF df = "cosine" THEN Frac(distance, Unit)
    ELSE IF distance > 0 THEN Frac(Unit, Unit + distance) ELSE Frac(1, 1)

\* VectorDatabase.query line 217: similarity = 1.0 / (1.0 + distance)
Similarity(distance) == Frac(Unit, Unit + distance)

RealDoc(i, distance, relevance) ==
    [id |-> "real" \o ToString(i), synthesized |-> FALSE, distance |-> distance,
     relevance |-> relevance]

SimDoc(id, hundredths) ==
    [id |-> id, synthesized |-> TRUE, distance |-> 0, relevance |-> Frac(hundredths, Unit)]

\* VectorStore.query (rag_agent.py 226-301)
VectorStoreQuery(backend, df, docs, k, fault) ==
    IF backend = "unavailable" THEN <<>>
    ELSE LET results == CollectionQuery(docs, ToInt(k), fault)
         IN  IF results.raised THEN <<>>
             ELSE [i \in DOMAIN results.list |->
                      RealDoc(i, results.list[i], StoreRelevance(df, results.list[i]))]

VectorStoreCountUnguarded(backend, docs, fault) == Len(docs)

\* VectorStore.count (rag_agent.py 303-316)
VectorStoreCount(backend, docs, fault) ==
    IF backend = "unavailable" \/ fault THEN 0 ELSE Len(docs)

\* VectorDatabase.count (db_utils.py 259-270)
VectorDatabaseCount(docs, fault) == IF fault THEN 0 ELSE Len(docs)

\* VectorDatabase.query (db_utils.py 179-230): collection.count() at line 197
\* is outside the try, the rest inside; min(n_results, count) with a text
\* raises TypeError inside it
VectorDatabaseQuery(docs, k, count_fault, fault) ==
    IF count_fault THEN Raised
    ELSE IF Len(docs) = 0 THEN Returned(<<>>)
    ELSE IF k.kind # "int" THEN Returned(<<>>)
    ELSE LET results == CollectionQuery(docs, Min(k.value, Len(docs)), fault)
         IN  IF results.raised THEN Returned(<<>>)
             ELSE Returned([i \in DOMAIN results.list |->
                              RealDoc(i, results.list[i], Similarity(results.list[i]))])

\* RAGAgent._simulate_document_search (rag_agent.py 691-746)
SimulatedDocuments ==
    <<SimDoc("sim1", 92), SimDoc("sim2", 85), SimDoc("sim3", 78)>>

SimulateDocumentSearchAscending(k) ==
    Slice(<<SimDoc("sim3", 78), SimDoc("sim2", 85), SimDoc("sim1", 92)>>, ToInt(k))

SimulateDocumentSearch(k) ==
    LET n == ToInt(k)
    IN  Slice(SimulatedDocuments, IF n > Len(SimulatedDocuments)
                                  THEN Len(SimulatedDocuments) ELSE n)

\* RAGAgent.search_documents (rag_agent.py 642-689); get_embedding at line
\* 670 is outside the try
RAGAgentSearch(backend, df, docs, k, encode_fault, fault) ==
    LET num_results == IF k.kind = "none" THEN [kind |-> "int", value |-> DefaultTopK]
                       ELSE [kind |-> "int", value |-> ToInt(k)]
    IN  IF encode_fault THEN Raised
        ELSE LET results == VectorStoreQuery(backend, df, docs, num_results, fault)
             IN  IF results = <<>>
                 THEN Returned(SimulateDocumentSearch(num_results))
                 ELSE Returned(results)

\* RAGAgentChroma._simulate_document_search (rag_agent_chroma.py 404-447):
\* documents[:num_results], which raises TypeError for a text
ChromaSimulatedDocuments ==
    <<SimDoc("doc1", 92), SimDoc("doc2", 85), SimDoc("doc3", 78), SimDoc("doc4", 72)>>

ChromaSimulate(k) ==
    IF k.kind # "int" THEN Raised ELSE Returned(Slice(ChromaSimulatedDocuments, k.value))

\* RAGAgentChroma.search_documents (rag_agent_chroma.py 237-283)
RAGAgentChromaSearch(backend, embedding, docs, k, encode_fault, count_fault, fault) ==
    LET num_results == IF k.kind = "none" THEN [kind |-> "int", value |-> DefaultTopK] ELSE k
    IN  IF backend = "unavailable" \/ embedding = "unavailable"
        THEN ChromaSimulate(num_results)
        ELSE LET results == VectorDatabaseQuery(docs, num_results, count_fault, fault)
             IN  IF encode_fault \/ results.raised \/ num_results.kind # "int"
                 THEN ChromaSimulate(num_results)
                 ELSE IF Len(results.list) < num_results.value
                 THEN Returned(results.list \o
                        ChromaSimulate([kind |-> "int",
                                        value |-> num_results.value - Len(results.list)]).list)
                 ELSE results

NoRetrievalCall ==
    [op |-> "none", k |-> [kind |-> "none", value |-> 0], encode_fault |-> FALSE,
     count_fault |-> FALSE, fault |-> FALSE]

Call(op, k, encode_fault, count_fault, fault) ==
    [op |-> op, k |-> k, encode_fault |-> encode_fault, count_fault |-> count_fault,
     fault |-> fault]

RetrievalInit ==
    /\ r_backend \in {"unavailable", "ok", "faulty"}
    /\ r_embedding \in {"unavailable", "loaded"}
    /\ r_distance_func \in {"cosine", "l2"}
    /\ r_docs \in IndexContents
    /\ r_call = NoRetrievalCall
    /\ r_result = Returned(<<>>)

RetrievalQuiet ==
    /\ r_backend = "unavailable"
    /\ r_embedding = "unavailable"
    /\ r_distance_func = "cosine"
    /\ r_docs = <<>>
    /\ r_call = NoRetrievalCall
    /\ r_result = Returned(<<>>)

\* the faults a call into the backend can meet
Faults == IF r_backend = "faulty" THEN BOOLEAN ELSE {FALSE}

\* model.encode can fail only where there is a model
EncodeFaults == IF r_embedding = "loaded" THEN BOOLEAN ELSE {FALSE}

CallVectorStoreQuery ==
    /\ r_call.op = "none"
    /\ \E k \in KInputs, fault \in Faults :
          /\ r_call' = Call("VectorStore.query", k, FALSE, FALSE, fault)
          /\ r_result' = Returned(VectorStoreQuery(r_backend, r_distance_func, r_docs, k, fault))
    /\ UNCHANGED <<gvars, lvars, ovars, r_backend, r_embedding, r_distance_func, r_docs>>

CallVectorStoreCount ==
    /\ r_call.op = "none"
    /\ \E fault \in Faults :
          /\ r_call' = Call("VectorStore.count", NoRetrievalCall.k, FALSE, FALSE, fault)
          /\ r_result' = ReturnedCount(VectorStoreCount(r_backend, r_docs, fault))
    /\ UNCHANGED <<gvars, lvars, ovars, r_backend, r_embedding, r_distance_func, r_docs>>

\* a VectorDatabase exists only with the backend installed (db_utils.py 38-39)
CallVectorDatabaseCount ==
    /\ r_call.op = "none"
    /\ r_backend # "unavailable"
    /\ \E fault \in Faults :
          /\ r_call' = Call("VectorDatabase.count", NoRetrievalCall.k, FALSE, FALSE, fault)
          /\ r_result' = ReturnedCount(VectorDatabaseCount(r_docs, fault))
    /\ UNCHANGED <<gvars, lvars, ovars, r_backend, r_embedding, r_distance_func, r_docs>>

CallVectorDatabaseQuery ==
    /\ r_call.op = "none"
    /\ r_backend # "unavailable"
    /\ \E k \in KInputs, count_fault \in Faults, fault \in Faults :
          /\ r_call' = Call("VectorDatabase.query", k, FALSE, count_fault, fault)
          /\ r_result' = VectorDatabaseQuery(r_docs, IF k.kind = "none"
                                                     THEN [kind |-> "int", value |-> DefaultTopK]
                                                     ELSE k, count_fault, fault)
    /\ UNCHANGED <<gvars, lvars, ovars, r_backend, r_embedding, r_distance_func, r_docs>>

CallRAGAgentSearch ==
    /\ r_call.op = "none"
    /\ \E k \in KInputs, encode_fault \in EncodeFaults, fault \in Faults :
          /\ r_call' = Call("RAGAgent.search_documents", k, encode_fault, FALSE, fault)
          /\ r_result' = RAGAgentSearch(r_backend, r_distance_func, r_docs, k,
                                        encode_fault, fault)
    /\ UNCHANGED <<gvars, lvars, ovars, r_backend, r_embedding, r_distance_func, r_docs>>

CallRAGAgentChromaSearch ==
    /\ r_call.op = "none"
    /\ \E k \in KInputs, encode_fault \in EncodeFaults, count_fault \in Faults,
          fault \in Faults :
          /\ r_call' = Call("RAGAgentChroma.search_documents", k, encode_fault,
                            count_fault, fault)
          /\ r_result' = RAGAgentChromaSearch(r_backend, r_embedding, r_docs, k,
                                              encode_fault, count_fault, fault)
    /\ UNCHANGED <<gvars, lvars, ovars, r_backend, r_embedding, r_distance_func, r_docs>>

\* the call is over; the caller keeps what it returned
RetrievalReturn ==
    /\ r_call.op # "none"
    /\ r_call' = NoRetrievalCall
    /\ UNCHANGED <<gvars, lvars, ovars, r_backend, r_embedding, r_distance_func, r_docs, r_result>>

RetrievalNext ==
    \/ RetrievalReturn
    \/ CallVectorStoreQuery
    \/ CallVectorStoreCount
    \/ CallVectorDatabaseCount
    \/ CallVectorDatabaseQuery
    \/ CallRAGAgentSearch
    \/ CallRAGAgentChromaSearch

\* the graph when only the service is looked at
GraphQuiet ==
    /\ max_steps = DefaultMaxSteps
    /\ max_steps_is_int = TRUE
    /\ GraphInit

\* ------------------------------------------------------------------------
\* Specifications
\* ------------------------------------------------------------------------
\* one run of LangGraphAgent.run
GraphSpecInit == GraphInit /\ LLMQuiet /\ OrchQuiet /\ RetrievalQuiet

SpecGraph == GraphSpecInit /\ [][GraphNext]_vars

\* change_model and generate called from two threads
LLMSpecInit ==
    LLMInit /\ messages = HiMessages /\ GraphQuiet /\ OrchQuiet /\ RetrievalQuiet

LLMNext == ChangeModelNext \/ GenerateNext

SpecLLM == LLMSpecInit /\ [][LLMNext]_vars

\* change_model and generate called from one thread: a call begins when no
\* other call is under way
SequentialNext ==
    \/ cm_pc = "idle" /\ GenerateBegin
    \/ GenerateReadProvider
    \/ GenerateFallback
    \/ GenerateResolve
    \/ GenerateBind
    \/ GenerateRequest
    \/ GenerateReturn
    \/ gen_pc = "idle" /\ ChangeModelBegin
    \/ ChangeModelSetCurrent
    \/ ChangeModelSetConfig
    \/ ChangeModelSetId
    \/ ChangeModelSetDefault
    \/ ChangeModelReturn

LLMSequentialInit ==
    LLMInit /\ messages \in MessageLists /\ GraphQuiet /\ OrchQuiet /\ RetrievalQuiet

SpecLLMSequential == LLMSequentialInit /\ [][SequentialNext]_vars

\* run_agent and run_agent_stream called from the threads
OrchSpecInit == OrchInit /\ GraphQuiet /\ LLMQuiet /\ RetrievalQuiet

SpecOrch == OrchSpecInit /\ [][OrchNext]_vars

\* the retrieval operations applied to every index content and argument
RetrievalSpecInit == RetrievalInit /\ GraphQuiet /\ LLMQuiet /\ OrchQuiet

SpecRetrieval == RetrievalSpecInit /\ [][RetrievalNext]_vars

\* ------------------------------------------------------------------------
\* Properties of LangGraphAgent.run
\* ------------------------------------------------------------------------
Max0(n) == IF n > 0 THEN n ELSE 0

AgentExecutions == Cardinality({i \in DOMAIN node_trace : node_trace[i].node \in AgentTypes})

ReturnedContent == g_pc = "done" /\ exc = None

\* C1: for every integer max_steps = N and every sequence of Router answers,
\* the step counter counts the loop iterations one by one (it equals the
\* number of node executions so far) and the loop never runs a node once the
\* counter has reached N: at most max(N, 0) nodes execute, and at the loop
\* head with the counter at N the only step left is to leave the loop.
C1_LoopBoundedBySteps ==
    max_steps_is_int =>
        /\ step = Len(node_trace)
        /\ Len(node_trace) <= Max0(max_steps)
        /\ (g_pc = "loop" /\ step >= max_steps => ~ENABLED LoopIteration)

C1_Witness ==
    /\ g_pc = "done"
    /\ max_steps_is_int
    /\ max_steps = 3
    /\ step = 3
    /\ state.next_agent \in AgentTypes

\* C2: when the counter has reached max_steps and next_agent is still
\* non-null, the run has left the loop with error set to the step-budget
\* error, and the response returned carries that error.
C2_BudgetErrorReported ==
    (max_steps_is_int /\ step >= max_steps /\ Truthy(state.next_agent)) =>
        /\ g_pc \in {"loop", "after_loop", "output", "format", "done"}
        /\ (g_pc \in {"output", "format", "done"} => state.error = StepBudgetError(max_steps))
        /\ (g_pc = "done" => response.error = StepBudgetError(max_steps))

C2_Witness ==
    /\ g_pc = "done"
    /\ max_steps_is_int
    /\ max_steps = 2
    /\ step = 2
    /\ Truthy(state.next_agent)
    /\ response.error = StepBudgetError(2)

\* Scenario B: max_steps = 3, every Router answer is "docs", the agents answer.
ScenarioB ==
    /\ max_steps_is_int
    /\ max_steps = 3
    /\ \A i \in DOMAIN node_trace :
          IF node_trace[i].node = "router"
          THEN node_trace[i].kind = "text" /\ node_trace[i].answer = "docs"
          ELSE node_trace[i].kind = "result"

IsErrorString(s) == \E e \in {StepBudgetError(3)} : s = "error occurred: " \o e

C4_Original ==
    (g_pc = "done" /\ max_steps_is_int) => AgentExecutions < max_steps

\* C4 (amended): for any max_steps = N >= 1 the number of AgentNode
\* executions is strictly less than N; for N <= 0 no AgentNode executes.
C4_AgentExecutionsBelowBudget ==
    max_steps_is_int =>
        /\ (max_steps >= 1 => AgentExecutions < max_steps)
        /\ (max_steps <= 0 => AgentExecutions = 0)

C4_Witness ==
    /\ g_pc = "done"
    /\ max_steps_is_int
    /\ max_steps = 2
    /\ AgentExecutions = 1

WellFormed(r) ==
    /\ r.content # None
    /\ r.content # Missing
    /\ Truthy(r.content) \/ Truthy(r.error)

\* C5: run never stops anywhere but at its return, and what it returns is a
\* response whose content or error is populated, whatever the Router LLM
\* call, the agents and the Output LLM call do (answers, failure results,
\* exceptions).
C5_RunReturnsWellFormed ==
    /\ g_pc # "done" => ENABLED GraphNext
    /\ g_pc = "done" => WellFormed(response)

C5_Witness ==
    /\ g_pc = "done"
    /\ \E i \in DOMAIN node_trace : node_trace[i].kind \in {"raises", "not_a_dict"}
    /\ \E i \in DOMAIN node_trace : node_trace[i].kind = "result"
    /\ Truthy(response.error)

\* ------------------------------------------------------------------------
\* Properties of LLMService
\* ------------------------------------------------------------------------
\* every read of self.model_config in the generate call saw the same model
OneDescriptorPerCall == Cardinality(gen_reads) <= 1

\* current_model, model_config and model_id belong to one model
SwitchNotPartial == model_config = current_model /\ model_id = ModelId(current_model)

\* C8: with change_model and generate running in two threads, a generate call
\* works from one model descriptor from its first read to its last, and
\* while it runs current_model, model_config and model_id belong to the same
\* model (it can observe no partially applied switch).
C8_Original ==
    /\ OneDescriptorPerCall
    /\ (gen_pc \notin {"idle", "returned"} => SwitchNotPartial)

\* the key of the change_model call under way is no available model
KeyRefused == cm_key # None /\ ~InList(cm_key, GetAvailableModels(env))

\* C9: change_model with a key that is no available model returns False and
\* leaves current_model, model_config, model_id and the default model as they
\* were when the call began; none of its assignments is ever reached.
C9_UnknownKeyRejected ==
    KeyRefused =>
        /\ cm_pc = "returned"
        /\ cm_result = FALSE
        /\ ServiceState = cm_before

C9_Witness ==
    /\ cm_pc = "returned"
    /\ cm_key = UnknownKey
    /\ cm_result = FALSE
    /\ InList(current_model, GetAvailableModels(env))

\* the request generate would make to provider q is answered
CallSucceeds(q) ==
    /\ GetProviderModel(env, q) # None
    /\ RequestSent(env, q, IF Provider(current_model) = q THEN current_model
                           ELSE GetProviderModel(env, q))
    /\ net_ok[q]

ActiveProviderFails ==
    \/ ~InList(Provider(current_model), available_providers)
    \/ ~CallSucceeds(Provider(current_model))

OtherProviderSucceeds ==
    \E q \in Providers :
        /\ q # Provider(current_model)
        /\ InList(q, available_providers)
        /\ CallSucceeds(q)

ResultFromOtherProvider ==
    /\ gen_result.kind \in {"text", "stream"}
    /\ gen_result.origin # Provider(current_model)
    /\ InList(gen_result.origin, available_providers)
    /\ Provider(gen_result.model) = gen_result.origin

OnlyReachableProvidersCalled ==
    \A i \in DOMAIN gen_calls :
        /\ InList(gen_calls[i].provider, available_providers)
        /\ gen_calls[i].provider \in AvailableProviderSet(env)

ActiveKeyIsMock == StartsWith(ApiKey(env, current_model), "mock_")

\* C10 as stated: when the active provider is unreachable or its call fails
\* while another registered, reachable provider's call succeeds, generate
\* returns a successful result of that other provider; no provider outside
\* the registered, reachable ones is called.
C10_Original ==
    /\ OnlyReachableProvidersCalled
    /\ (gen_pc = "returned" /\ ActiveProviderFails /\ OtherProviderSucceeds)
          => ResultFromOtherProvider

\* C10 (amended): the same, for an active model whose credential is not the
\* mock sentinel (with the sentinel generate calls no provider at all and
\* returns the synthesized mock response).
C10_FallbackToReachableProvider ==
    /\ OnlyReachableProvidersCalled
    /\ (gen_pc = "returned" /\ ~ActiveKeyIsMock /\ ActiveProviderFails /\ OtherProviderSucceeds)
          => ResultFromOtherProvider

\* scenario A: internal registered but unreachable, openrouter reachable,
\* active model internal-model
C10_Witness ==
    /\ gen_pc = "returned"
    /\ current_model = "internal-model"
    /\ ~ActiveKeyIsMock
    /\ available_providers = <<"openrouter">>
    /\ "internal" \in AvailableProviderSet(env)
    /\ gen_result.kind = "text"
    /\ gen_result.origin = "openrouter"
    /\ gen_result.model = "openrouter-llama"

\* ------------------------------------------------------------------------
\* Claims about the orchestrator
\* ------------------------------------------------------------------------
\* the thread's call is run_agent itself, not the consumption of the stream
IsRunAgentCall(t) == o_call[t].agent_type # None /\ ~o_call[t].stream

\* C6: AgentOrchestrator.run_agent never throws: no run_agent call, whatever
\* its agent type ('graph' with a failing generate included), ends in an
\* exception that reaches the caller.
C6_Original == \A t \in Threads : IsRunAgentCall(t) => o_pc[t] # "raised"

\* an agent's run, or a provider call made for the routing, is in progress
InProgress(t) == o_pc[t] \in {"agent_running", "graph_generating"}

\* C7: at most one agent run or provider call is in progress at any moment
\* across the concurrent run_agent and run_agent_stream calls.
C7_Original == Cardinality({t \in Threads : InProgress(t)}) <= 1

\* ------------------------------------------------------------------------
\* Properties of generate
\* ------------------------------------------------------------------------
\* generate has returned the failure dict after at least one failed attempt
AllAttemptsFailed ==
    gen_pc = "returned" /\ gen_result.kind = "error" /\ gen.last_error # None

\* C11: when every provider attempt fails, the non-streaming generate returns
\* a failure result whose error is the error of the last failed attempt.
C11_Original == AllAttemptsFailed => gen_result.error = gen.last_error

\* the content of the last message of role user, "" when there is none
LastUserMessage(msgs) ==
    LET users == {i \in DOMAIN msgs : msgs[i].role = "user"}
    IN  IF users = {} THEN ""
        ELSE Get(msgs[CHOOSE i \in users : \A j \in users : j <= i].content, "")

\* the generate call under way found the mock credential on the active model
MockCredentialRead == gen_pc # "idle" /\ StartsWith(gen.api_key, "mock_")

\* C12: with the mock sentinel as the active model's credential, generate
\* (sync or streaming) sends no request to any provider, primary or fallback,
\* and what it returns is the same for all message lists with the same last
\* user message.
C12_MockShortCircuit ==
    MockCredentialRead =>
        /\ gen_pc = "returned"
        /\ gen_calls = <<>>
        /\ gen_result.kind \in {"mock", "mock_stream"}
        /\ \A m \in MessageLists :
              LastUserMessage(m) = LastUserMessage(messages) =>
                  /\ ~gen.stream => gen_result.content = GenerateMockResponse(m)
                  /\ gen.stream => gen_result.chunks = GenerateMockStream(m)

\* a streaming mock call whose last user message is not the last message
C12_Witness ==
    /\ MockCredentialRead
    /\ gen.stream
    /\ Len(messages) = 2
    /\ messages[1] = [role |-> "user", content |-> "what is APE"]
    /\ messages[2].role = "assistant"
    /\ gen_result.chunks = <<"APE is ", "a backend server">>

\* ------------------------------------------------------------------------
\* More properties of the orchestrator
\* ------------------------------------------------------------------------
\* thread t is in run_agent with an agent type nobody registered
UnknownAgentCall(t) == IsRunAgentCall(t) /\ o_call[t].agent_type = UnknownAgent

\* C13: run_agent with an unregistered agent type returns the error response
\* of that type; the call never reaches an agent's run (nor the lock), no
\* instance is constructed or substituted for it and the cache gets no entry
\* for the type.
C13_UnknownAgentRejected ==
    \A t \in Threads :
        UnknownAgentCall(t) =>
            /\ o_pc[t] \in {"get_agent", "returned"}
            /\ o_loc[t].agent = 0
            /\ o_pc[t] = "returned" => o_result[t] = SingleAgentErrorResponse(UnknownAgent)
            /\ agent_cache[UnknownAgent] = 0
            /\ constructed[UnknownAgent] = 0

\* the unknown call has returned while the cache holds another agent
C13_Witness ==
    \E t \in Threads :
        /\ UnknownAgentCall(t)
        /\ o_pc[t] = "returned"
        /\ o_result[t].kind = "error_response"
        /\ agent_cache["jira"] # 0

\* ------------------------------------------------------------------------
\* Properties of change_model
\* ------------------------------------------------------------------------
\* the change_model call that has returned made its key the active model
Switched ==
    /\ cm_result = TRUE
    /\ current_model = cm_key
    /\ model_config = cm_key
    /\ model_id = ModelId(cm_key)
    /\ DEFAULT_MODEL = cm_key

\* the call asks for the key that was current before the last switch
SwitchBack == cm_key # None /\ cm_key = cm_hist.previous

SearchOps == {"RAGAgent.search_documents", "RAGAgentChroma.search_documents"}

CountOps == {"VectorStore.count", "VectorDatabase.count"}

\* the operations retrieval offers to its callers
SurfaceOps == SearchOps \cup CountOps \cup {"VectorStore.query"}

\* the call was made with a result count of the declared type, and the
\* loaded embedding model did its work
WellFormedCall == r_call.k.kind # "text" /\ ~r_call.encode_fault

\* the backend was unavailable or failed during the call
BackendDown == r_backend = "unavailable" \/ r_call.fault \/ r_call.count_fault

Degraded == r_backend = "unavailable" \/ r_embedding = "unavailable"

\* C16: a search for k results returns exactly k items whenever a document
\* exists or degradation is active, the real results being padded with
\* placeholders.
C16_Original ==
    (/\ r_call.op \in SearchOps
     /\ r_call.k.kind = "int"
     /\ r_call.k.value >= 0
     /\ ~r_result.raised
     /\ (Len(r_docs) >= 1 \/ Degraded))
        => Len(r_result.list) = r_call.k.value

\* the relevances of the synthesized entries of l fall strictly
SynthesizedDecreasing(l) ==
    \A i, j \in DOMAIN l :
        (i < j /\ l[i].synthesized /\ l[j].synthesized)
            => Greater(l[i].relevance, l[j].relevance)

\* scenario C: no real document, search('topic', null, 3)
ScenarioC ==
    /\ r_call.op \in SearchOps
    /\ r_docs = <<>>
    /\ r_call.k = [kind |-> "int", value |-> 3]
    /\ ~r_call.encode_fault

\* C17: in scenario C the search returns exactly 3 documents, all
\* placeholders, with relevances 0.92 > 0.85 > 0.78; and in every list a
\* search returns the placeholders have strictly decreasing relevance.
C17_PlaceholdersDecreasing ==
    /\ ScenarioC =>
          /\ ~r_result.raised
          /\ Len(r_result.list) = 3
          /\ \A i \in 1..3 : r_result.list[i].synthesized
          /\ [i \in 1..3 |-> r_result.list[i].relevance]
                = <<Frac(92, Unit), Frac(85, Unit), Frac(78, Unit)>>
    /\ r_call.op \in SearchOps => SynthesizedDecreasing(r_result.list)

C17_Witness ==
    /\ ScenarioC
    /\ r_backend = "ok"
    /\ r_embedding = "loaded"
    /\ r_call.op = "RAGAgent.search_documents"
    /\ Len(r_result.list) = 3

\* the operations that return document matches
MatchOps == SearchOps \cup {"VectorStore.query", "VectorDatabase.query"}

SortedByRelevance(l) ==
    \A i, j \in DOMAIN l : i < j => GreaterEq(l[i].relevance, l[j].relevance)

RealAscendingByDistance(l) ==
    \A i, j \in DOMAIN l :
        (i < j /\ ~l[i].synthesized /\ ~l[j].synthesized) => l[i].distance <= l[j].distance

\* C18: the list of matches that query/search returns is sorted descending
\* by relevance (for a distance-configured index: its real matches ascending
\* by raw distance, which is the same order), for every index content and k.
C18_Original ==
    (r_call.op \in MatchOps /\ ~r_result.raised) =>
        /\ SortedByRelevance(r_result.list)
        /\ RealAscendingByDistance(r_result.list)

\* ------------------------------------------------------------------------
\* Properties of the graph's nodes
\* ------------------------------------------------------------------------
\* generate gave the Router node the failure dict
RouterGenerateFailed ==
    \E i \in DOMAIN node_trace :
        node_trace[i].node = "router" /\ node_trace[i].kind = "error_dict"

\* generate gave the Output node the failure dict: the only way to this text
OutputGenerateFailed ==
    state.final_output = "final output generation error: " \o AllFailedMsg

\* C19: when generate returns its failure result to the Router node or to
\* the Output node, the result the run returns has a non-null error.
C19_Original ==
    (g_pc = "done" /\ (RouterGenerateFailed \/ OutputGenerateFailed))
        => response.error # None

\* a Router execution whose answer, trimmed and lower-cased, is d
RouterAnswered(i, d) ==
    /\ node_trace[i].node = "router"
    /\ node_trace[i].kind = "text"
    /\ node_trace[i].answer = d

\* C20: the Router's answer is trimmed and lower-cased; an answer that is
\* then a registered agent name selects that agent, and any other answer
\* ('none' or an unknown name) ends the routing: no next agent, no node run
\* after it, no error set.
C20_RouterDecisionFailSafe ==
    \A i \in DOMAIN node_trace :
        /\ \A a \in AgentTypes :
              (RouterAnswered(i, a) /\ i = Len(node_trace)) => state.next_agent = a
        /\ \A d \in Cores \ AgentTypes :
              RouterAnswered(i, d) =>
                  /\ i = Len(node_trace)
                  /\ state.next_agent = None
                  /\ state.error = None
                  /\ g_pc = "done" => response.error = None

\* the Router answered a name no agent has, and the run returned
C20_Witness ==
    /\ g_pc = "done"
    /\ Len(node_trace) = 3
    /\ RouterAnswered(1, "docs")
    /\ node_trace[2].node = "docs"
    /\ RouterAnswered(3, "jira")
    /\ response.error = None
    /\ response.content = "final answer"

\* ------------------------------------------------------------------------
\* Properties of the loop of LangGraphAgent.run
\* ------------------------------------------------------------------------
\* an execution of a Router or Agent node that ended in an error
NodeFailed(i) ==
    node_trace[i].kind \in {"error_dict", "not_a_string", "raises", "not_a_dict"}

\* C21: no Router node and no Agent node executes once the error of the
\* state is non-null.
C21_NoNodeAfterError ==
    [][state.error # None => node_trace' = node_trace]_vars

\* an agent failed with budget left, and the run ended without another node
C21_Witness ==
    /\ g_pc = "done"
    /\ Len(node_trace) = 2
    /\ node_trace[2].node \in AgentTypes
    /\ NodeFailed(2)
    /\ step < max_steps
    /\ response.error = AgentNodeError(AgentOutcomes_Raises)

\* C22: Router and Agent nodes alternate, the Router first; after an Agent
\* node next_agent is "router".
C22_RouterAgentAlternate ==
    /\ \A i \in DOMAIN node_trace :
          IF i % 2 = 1 THEN node_trace[i].node = "router"
          ELSE node_trace[i].node \in AgentTypes
    /\ (node_trace # <<>> /\ node_trace[Len(node_trace)].node \in AgentTypes)
          => state.next_agent = "router"

\* two agents ran, each after a Router execution
C22_Witness ==
    /\ Len(node_trace) = 4
    /\ node_trace[2].node = "docs"
    /\ node_trace[4].node = "tickets"
    /\ state.next_agent = "router"

\* C23: next_agent is None, "start", "router" or the name of a registered
\* agent, and only registered agents' nodes are run.
C23_NextAgentKnown ==
    /\ state.next_agent \in {None, "start", "router"} \cup AgentTypes
    /\ \A i \in DOMAIN node_trace : node_trace[i].node \in {"router"} \cup AgentTypes

\* the Router answered an unregistered name after an agent had run
C23_Witness ==
    /\ Len(node_trace) = 3
    /\ node_trace[2].node = "tickets"
    /\ RouterAnswered(3, "jira")
    /\ state.next_agent = None

\* the error a failing node records
NodeError(i) ==
    IF node_trace[i].node \in AgentTypes
    THEN IF node_trace[i].kind = "raises" THEN AgentNodeError(AgentOutcomes_Raises)
         ELSE AgentNodeError(AgentOutcomes_NotADict)
    ELSE CASE node_trace[i].kind = "error_dict" -> "routing error: " \o AllFailedMsg
           [] node_trace[i].kind = "raises" -> "router node error: llm failed"
           [] OTHER -> "router node error: no attribute strip"

\* C26: the error a Router or Agent node recorded is the error of the
\* result run returns.
C26_Original ==
    \A i \in DOMAIN node_trace :
        (g_pc = "done" /\ NodeFailed(i)) => response.error = NodeError(i)

\* C30: an Agent node whose agent raises returns the state it was given with
\* only error set: query, context, agent_outputs and final_output unchanged.
C30_FailingAgentKeepsState ==
    [][(/\ Len(node_trace') = Len(node_trace) + 1
        /\ node_trace'[Len(node_trace')].node \in AgentTypes
        /\ node_trace'[Len(node_trace')].kind \in {"raises", "not_a_dict"})
          => /\ state'.query = state.query
             /\ state'.context = state.context
             /\ state'.agent_outputs = state.agent_outputs
             /\ state'.final_output = state.final_output
             /\ state'.error # None]_vars

\* the second agent raised after the first had left its evidence
C30_Witness ==
    /\ Len(node_trace) = 4
    /\ node_trace[2].node = "docs"
    /\ node_trace[2].kind = "result"
    /\ node_trace[4].node = "tickets"
    /\ node_trace[4].kind = "raises"
    /\ state.context["docs"] = "evidence"
    /\ state.context["tickets"] = Missing
    /\ state.error # None

\* ------------------------------------------------------------------------
\* Properties of provider selection
\* ------------------------------------------------------------------------
\* the providers in the order MODELS_CONFIG registers their models
RegistrationOrder == <<"internal", "openrouter">>

IsPrefix(a, b) == Len(a) <= Len(b) /\ SubSeq(b, 1, Len(a)) = a

\* the order a call whose active provider is p has to follow
SelectionOrder(p, avail) ==
    (IF InList(p, avail) THEN <<p>> ELSE <<>>)
    \o SelectSeq(RegistrationOrder, LAMBDA q : q # p /\ InList(q, avail))

\* the call has read the provider of the active model
ProviderRead == gen_pc \notin {"idle", "read_provider"} /\ gen.provider # None

StartupProviders == {AfterProbe(env, l) : l \in Orderings(AvailableProviderSet(env))}

\* C25: available_providers is what startup made it: a provider whose probe
\* failed is not in it, no call changes it, and no generate call attempts or
\* sends a request to a provider outside it.
C25_ReachableSetFixed ==
    /\ [](/\ available_providers \in StartupProviders
          /\ ~env.probe_ok => ~InList("internal", available_providers)
          /\ \A i \in DOMAIN gen.attempts : InList(gen.attempts[i], available_providers)
          /\ \A i \in DOMAIN gen_calls : InList(gen_calls[i].provider, available_providers))
    /\ [][available_providers' = available_providers]_vars

\* the probe failed at startup, the active model is the internal one, and a
\* call went to OpenRouter only
C25_Witness ==
    /\ ~env.probe_ok
    /\ env.internal_key = "sk-live"
    /\ model_config = "internal-model"
    /\ gen_pc = "returned"
    /\ gen.attempts = <<"openrouter">>
    /\ cm_hist.switched

\* C27: the fragments one streaming call yields come from one provider.
C27_Original ==
    gen.stream =>
        \A i, j \in DOMAIN gen_result.chunks :
            \A p, q \in Providers :
                (gen_result.chunks[i] = Fragment(p) /\ gen_result.chunks[j] = Fragment(q))
                    => p = q

\* C28: no request is sent with a credential that is the mock sentinel.
C28_Original ==
    \A i \in DOMAIN gen_calls : ~StartsWith(gen_calls[i].key, "mock_")

\* ------------------------------------------------------------------------
\* Properties of the agent cache
\* ------------------------------------------------------------------------
\* C29: at most one instance of each agent type is ever constructed, and the
\* calls for one type run on the same instance.
C29_Original ==
    /\ \A a \in CacheKeys : constructed[a] <= 1
    /\ \A t, u \in Threads :
          (/\ o_result[t].instance # 0
           /\ o_result[u].instance # 0
           /\ o_result[t].agent = o_result[u].agent)
              => o_result[t].instance = o_result[u].instance

====
